---- MODULE Spec2Model ----
(***************************************************************************)
(* Model of createMachine (src/src/index.ts): one machine instance, its    *)
(* current-state cell, and the asynchronous transition protocol.  Every    *)
(* `await` of transition() is a suspension point, so several calls may be  *)
(* in flight and their continuations interleave.                           *)
(***************************************************************************)
EXTENDS Integers, Sequences, FiniteSets, TLC

\* Number of transition calls issued during one run of the model.
MaxCalls == 2
MaxStates == 2
MaxSubs == 2
MaxUnsubCalls == 2

\* JavaScript `undefined`.
Nothing == "undefined"
\* A string that is not a key of the config.
NonKey == "bogus"
\* Marks a local that has not been assigned yet.
Unset == "unset"
\* A TransitionFunction outcome: the function throws or its promise rejects.
Throws == "throws"
NoError == "none"

\* config: state name -> action name -> the outcomes its TransitionFunction
\* can produce (a returned value, possibly Nothing, or Throws).  The final
\* state carries the name of the machine-wide enter event.
config ==
  [ off  |-> [ switchOn  |-> {"on"},
               toggle    |-> {"on"} ],
    on   |-> [ switchOff |-> {"off"},
               toggle    |-> {"off", Nothing, Throws},
               finish    |-> {"onEnter"} ],
    onEnter |-> [a \in {} |-> {}] ]

\* Object.keys(config)
StateNames == DOMAIN config

\* Keys of one StateDefinition; a state without actions has none.
ActionsOf(s) == DOMAIN config[s]

\* buildActions: the distinct action names found under any state.
actionSet == UNION { ActionsOf(s) : s \in StateNames }

\* Metadata values a caller may pass.
Metas == {"m1"}

\* Values options.initialState can hold at run time (the type is erased).
InitialStates == StateNames \cup {NonKey}

CallIds == 1..MaxCalls

VARIABLES
  created,       \* createMachine has returned a handle
  initialState,  \* options.initialState
  current,       \* the current-state cell
  calls,         \* the transition calls, by id
  commitOrder,   \* ids of the calls that assigned current, in order
  hcfg,          \* the config createMachine builds the handle from
  hpc,           \* "init" before the handle is built, then "built"
  handle,        \* the returned object: member name -> what it is bound to
  hEffect,       \* what the last call of a handle member did
  registry,      \* the handlers registered on each notification channel
  subs,          \* the unsubscribe functions handed out, in order
  hook           \* the React state of a useStateMachine hook on the machine

vars == <<created, initialState, current, calls, commitOrder,
          hcfg, hpc, handle, hEffect, registry, subs, hook>>

\* The variables the transition protocol does not touch.
others == <<hcfg, hpc, handle, hEffect, registry, subs>>

\* Names are sequences of characters, so that a key can be built from them.
NoName == << >>
NoConfig == [keys |-> << >>, defs |-> << >>]
NoEffect == [member |-> NoName, arg |-> NoName, kind |-> "none", target |-> NoName]

\* The channels of the two emitters createMachine holds: the machine-wide
\* one (options.emitter) and the per-state one (stateEmitter).
EnterChannel == [emitter |-> "emitter", event |-> "onEnter"]
ExitChannel == [emitter |-> "emitter", event |-> "onExit"]
StateChannel(s) == [emitter |-> "stateEmitter", event |-> s]
\* Event names a holder of options.emitter can register handlers for.
EventNames == {"onEnter", "onExit"} \cup StateNames
Channels ==
  { [emitter |-> "emitter", event |-> e] : e \in EventNames }
    \cup { StateChannel(s) : s \in StateNames }

Handlers == {"h1", "h2"}

\* emitter.on, emitter.off and the handlers emitter.emit invokes.
EmitterOn(reg, ch, h) == [reg EXCEPT ![ch] = @ \cup {h}]
EmitterOff(reg, ch, h) == [reg EXCEPT ![ch] = @ \ {h}]
Listeners(reg, ch) == IF ch \in DOMAIN reg THEN reg[ch] ELSE {}

\* The handlers useStateMachine registers in its effect.
HookEnter == "hookEnter"
HookExit == "hookExit"

\* No component uses the machine through the hook.
NoHook ==
  [ mounted |-> FALSE, currentState |-> Unset, isTransitioning |-> FALSE ]

IdleCall ==
  [ pc |-> "idle", action |-> Unset, meta |-> Unset, callCur |-> Unset,
    last |-> Unset, fn |-> Unset, result |-> Unset,
    exitLog |-> << >>, enterLog |-> << >>, stateLog |-> << >>,
    exitTo |-> {}, enterTo |-> {}, stateTo |-> {},
    ret |-> Nothing, err |-> NoError, trace |-> << >>,
    commitsAtCall |-> 0, commitsAtLookup |-> 0, alone |-> FALSE ]

Init ==
  /\ created = FALSE
  /\ initialState = Unset
  /\ current = Unset
  /\ calls = [c \in CallIds |-> IdleCall]
  /\ commitOrder = << >>
  /\ hcfg = NoConfig
  /\ hpc = "init"
  /\ handle = << >>
  /\ hEffect = NoEffect
  /\ registry = [ch \in Channels |-> {}]
  /\ subs = << >>
  /\ hook = NoHook

\* createMachine: `let current = initialState`, no check of the value.
\* The hook's React state after a step of the machine, while the component
\* is mounted.  The exit handler sets isTransitioning, the enter handler sets
\* currentState from the payload and clears isTransitioning.  A call is
\* issued either through the hook's transition wrapper or through an action
\* method of the machine: the wrapper sets isTransitioning before the call,
\* as the exit handler does, and clears it in its catch when the call
\* rejects, which a call through an action method does not.
HookAfter ==
  IF ~hook.mounted THEN {hook}
  ELSE
    LET issued == { c \in CallIds : calls[c].pc = "idle" /\ calls'[c].pc # "idle" }
        exitHeard == \E c \in issued : HookExit \in calls'[c].exitTo
        entered == { c \in CallIds : /\ calls[c].enterLog = << >>
                                      /\ calls'[c].enterLog # << >>
                                      /\ HookEnter \in calls'[c].enterTo }
        rejected == { c \in CallIds : /\ calls[c].pc # "rejected"
                                       /\ calls'[c].pc = "rejected" }
    IN { [ mounted |-> TRUE,
           currentState |->
             IF entered # {}
               THEN calls'[CHOOSE c \in entered : TRUE].enterLog[1].current
               ELSE hook.currentState,
           isTransitioning |->
             IF issued # {}
               THEN (viaWrapper \/ exitHeard \/ hook.isTransitioning)
             ELSE IF entered # {} THEN FALSE
             ELSE IF rejected # {} /\ viaWrapper THEN FALSE
             ELSE hook.isTransitioning ] :
         viaWrapper \in IF issued # {} \/ rejected # {} THEN BOOLEAN ELSE {FALSE} }

CreateMachine(s0) ==
  /\ ~created
  /\ created' = TRUE
  /\ initialState' = s0
  /\ current' = s0
  /\ UNCHANGED <<calls, commitOrder>>
  /\ UNCHANGED others
  /\ hook' \in HookAfter

\* getState()
getState == current

InFlight(c) == calls[c].pc \in {"awaitExit", "awaitFn", "awaitEnter", "awaitState"}
Settled(c) == calls[c].pc \in {"resolved", "rejected"}

\* config[current][action] is truthy.
Declared(s, a) == s \in StateNames /\ a \in ActionsOf(s)

\* Variant of Call: the exit notification is published only when the action
\* is declared for the current state.
CallPublishesExitIfLegal(c, a, m) ==
  /\ created
  /\ calls[c].pc = "idle"
  /\ \A d \in CallIds : d < c => calls[d].pc # "idle"
  /\ calls' = [calls EXCEPT ![c] =
        [@ EXCEPT !.pc = "awaitExit", !.action = a, !.meta = m,
                  !.callCur = current,
                  !.exitLog = IF Declared(current, a)
                              THEN <<[action |-> a, current |-> current,
                                      meta |-> m]>>
                              ELSE << >>,
                  !.trace = <<"exitPublished">>,
                  !.commitsAtCall = Len(commitOrder),
                  !.alone = \A d \in CallIds : ~InFlight(d)]]
  /\ UNCHANGED <<created, initialState, current, commitOrder>>
  /\ UNCHANGED others
  /\ hook' \in HookAfter

\* transition(action, meta), up to its first await: the exit payload is built
\* from the cell and published.
Call(c, a, m) ==
  /\ created
  /\ calls[c].pc = "idle"
  /\ \A d \in CallIds : d < c => calls[d].pc # "idle"
  /\ calls' = [calls EXCEPT ![c] =
        [@ EXCEPT !.pc = "awaitExit", !.action = a, !.meta = m,
                  !.callCur = current,
                  !.exitLog = <<[action |-> a, current |-> current, meta |-> m]>>,
                  !.exitTo = Listeners(registry, ExitChannel),
                  !.trace = <<"exitPublished">>,
                  !.commitsAtCall = Len(commitOrder),
                  !.alone = \A d \in CallIds : ~InFlight(d)]]
  /\ UNCHANGED <<created, initialState, current, commitOrder>>
  /\ UNCHANGED others
  /\ hook' \in HookAfter

\* Variant of ExitFails: the failure is rethrown only after the lookup and
\* the invocation of the TransitionFunction.
ExitFailsAfterInvoke(c) ==
  /\ calls[c].pc = "awaitExit"
  /\ calls' = [calls EXCEPT ![c] =
        [@ EXCEPT !.pc = "rejected", !.err = "ExitHandlerError",
                  !.last = current,
                  !.fn = IF Declared(current, calls[c].action)
                         THEN current ELSE Unset,
                  !.trace = Append(@, "rejected")]]
  /\ UNCHANGED <<created, initialState, current, commitOrder>>
  /\ UNCHANGED others
  /\ hook' \in HookAfter

\* An exit handler throws or rejects: the await throws, the call rejects.
ExitFails(c) ==
  /\ calls[c].pc = "awaitExit"
  /\ calls' = [calls EXCEPT ![c] =
        [@ EXCEPT !.pc = "rejected", !.err = "ExitHandlerError",
                  !.trace = Append(@, "rejected")]]
  /\ UNCHANGED <<created, initialState, current, commitOrder>>
  /\ UNCHANGED others
  /\ hook' \in HookAfter

\* Exit handlers completed; config[current] is undefined, indexing it throws.
LookupThrows(c) ==
  /\ calls[c].pc = "awaitExit"
  /\ current \notin StateNames
  /\ calls' = [calls EXCEPT ![c] =
        [@ EXCEPT !.pc = "rejected", !.err = "TypeError", !.last = current,
                  !.commitsAtLookup = Len(commitOrder),
                  !.trace = @ \o <<"exitHandlersDone", "rejected">>]]
  /\ UNCHANGED <<created, initialState, current, commitOrder>>
  /\ UNCHANGED others
  /\ hook' \in HookAfter

\* Variant of LookupMisses: the missing function's result (undefined) is
\* assigned to the cell before returning.
LookupMissesAssigns(c) ==
  /\ calls[c].pc = "awaitExit"
  /\ current \in StateNames
  /\ ~Declared(current, calls[c].action)
  /\ current' = Nothing
  /\ calls' = [calls EXCEPT ![c] =
        [@ EXCEPT !.pc = "resolved", !.ret = Nothing, !.last = current,
                  !.commitsAtLookup = Len(commitOrder),
                  !.trace = @ \o <<"exitHandlersDone", "resolved">>]]
  /\ UNCHANGED <<created, initialState, commitOrder>>
  /\ UNCHANGED others
  /\ hook' \in HookAfter

\* Variant of LookupMisses: `return current` where the code has `return`.
LookupMissesReturnsCurrent(c) ==
  /\ calls[c].pc = "awaitExit"
  /\ current \in StateNames
  /\ ~Declared(current, calls[c].action)
  /\ calls' = [calls EXCEPT ![c] =
        [@ EXCEPT !.pc = "resolved", !.ret = current, !.last = current,
                  !.commitsAtLookup = Len(commitOrder),
                  !.trace = @ \o <<"exitHandlersDone", "resolved">>]]
  /\ UNCHANGED <<created, initialState, current, commitOrder>>
  /\ UNCHANGED others
  /\ hook' \in HookAfter

\* Exit handlers completed; no TransitionFunction for (current, action).
LookupMisses(c) ==
  /\ calls[c].pc = "awaitExit"
  /\ current \in StateNames
  /\ ~Declared(current, calls[c].action)
  /\ calls' = [calls EXCEPT ![c] =
        [@ EXCEPT !.pc = "resolved", !.ret = Nothing, !.last = current,
                  !.commitsAtLookup = Len(commitOrder),
                  !.trace = @ \o <<"exitHandlersDone", "resolved">>]]
  /\ UNCHANGED <<created, initialState, current, commitOrder>>
  /\ UNCHANGED others
  /\ hook' \in HookAfter

\* Variant of InvokeFn: the lookup uses the state the exit payload was built
\* from instead of reading the cell again.
InvokeFnOfCallTimeState(c) ==
  /\ calls[c].pc = "awaitExit"
  /\ current \in StateNames
  /\ Declared(calls[c].callCur, calls[c].action)
  /\ calls' = [calls EXCEPT ![c] =
        [@ EXCEPT !.pc = "awaitFn", !.last = current, !.fn = calls[c].callCur,
                  !.commitsAtLookup = Len(commitOrder),
                  !.trace = @ \o <<"exitHandlersDone", "fnInvoked">>]]
  /\ UNCHANGED <<created, initialState, current, commitOrder>>
  /\ UNCHANGED others
  /\ hook' \in HookAfter

\* Exit handlers completed; the TransitionFunction of (current, action) is
\* invoked and awaited.
InvokeFn(c) ==
  /\ calls[c].pc = "awaitExit"
  /\ Declared(current, calls[c].action)
  /\ calls' = [calls EXCEPT ![c] =
        [@ EXCEPT !.pc = "awaitFn", !.last = current, !.fn = current,
                  !.commitsAtLookup = Len(commitOrder),
                  !.trace = @ \o <<"exitHandlersDone", "fnInvoked">>]]
  /\ UNCHANGED <<created, initialState, current, commitOrder>>
  /\ UNCHANGED others
  /\ hook' \in HookAfter

\* Variant of FnRejects: the failed await still assigns the cell (undefined).
FnRejectsClearsCurrent(c) ==
  /\ calls[c].pc = "awaitFn"
  /\ Throws \in config[calls[c].fn][calls[c].action]
  /\ current' = Nothing
  /\ calls' = [calls EXCEPT ![c] =
        [@ EXCEPT !.pc = "rejected", !.err = "TransitionError",
                  !.trace = Append(@, "rejected")]]
  /\ UNCHANGED <<created, initialState, commitOrder>>
  /\ UNCHANGED others
  /\ hook' \in HookAfter

\* The TransitionFunction throws or rejects.
FnRejects(c) ==
  /\ calls[c].pc = "awaitFn"
  /\ Throws \in config[calls[c].fn][calls[c].action]
  /\ calls' = [calls EXCEPT ![c] =
        [@ EXCEPT !.pc = "rejected", !.err = "TransitionError",
                  !.trace = Append(@, "rejected")]]
  /\ UNCHANGED <<created, initialState, current, commitOrder>>
  /\ UNCHANGED others
  /\ hook' \in HookAfter

\* Variant of FnResolves: a result is dropped when the cell has changed since
\* the lookup.
FnResolvesDropsStale(c, r) ==
  /\ calls[c].pc = "awaitFn"
  /\ r \in config[calls[c].fn][calls[c].action] \ {Throws}
  /\ current' = IF current = calls[c].last THEN r ELSE current
  /\ commitOrder' = Append(commitOrder, c)
  /\ calls' = [calls EXCEPT ![c] =
        [@ EXCEPT !.pc = "awaitEnter", !.result = r,
                  !.enterLog = <<[action |-> calls[c].action, current |-> r,
                                  last |-> calls[c].last,
                                  meta |-> calls[c].meta]>>,
                  !.trace = @ \o <<"fnResolved", "assigned", "enterPublished">>]]
  /\ UNCHANGED <<created, initialState>>
  /\ UNCHANGED others
  /\ hook' \in HookAfter

\* Variant of FnResolves: `last` is read after the assignment.
FnResolvesLastIsNew(c, r) ==
  /\ calls[c].pc = "awaitFn"
  /\ r \in config[calls[c].fn][calls[c].action] \ {Throws}
  /\ current' = r
  /\ commitOrder' = Append(commitOrder, c)
  /\ calls' = [calls EXCEPT ![c] =
        [@ EXCEPT !.pc = "awaitEnter", !.result = r, !.last = r,
                  !.enterLog = <<[action |-> calls[c].action, current |-> r,
                                  last |-> r, meta |-> calls[c].meta]>>,
                  !.trace = @ \o <<"fnResolved", "assigned", "enterPublished">>]]
  /\ UNCHANGED <<created, initialState>>
  /\ UNCHANGED others
  /\ hook' \in HookAfter

\* The TransitionFunction resolves to r: current is assigned, the enter
\* payload is built from the cell and published.
FnResolves(c, r) ==
  /\ calls[c].pc = "awaitFn"
  /\ r \in config[calls[c].fn][calls[c].action] \ {Throws}
  /\ current' = r
  /\ commitOrder' = Append(commitOrder, c)
  /\ calls' = [calls EXCEPT ![c] =
        [@ EXCEPT !.pc = "awaitEnter", !.result = r,
                  !.enterLog = <<[action |-> calls[c].action, current |-> r,
                                  last |-> calls[c].last,
                                  meta |-> calls[c].meta]>>,
                  !.enterTo = Listeners(registry, EnterChannel),
                  !.trace = @ \o <<"fnResolved", "assigned", "enterPublished">>]]
  /\ UNCHANGED <<created, initialState>>
  /\ UNCHANGED others
  /\ hook' \in HookAfter

\* Variant of EnterFails: the assignment is rolled back when a handler fails.
EnterFailsRollsBack(c) ==
  /\ calls[c].pc = "awaitEnter"
  /\ current' = calls[c].last
  /\ calls' = [calls EXCEPT ![c] =
        [@ EXCEPT !.pc = "rejected", !.err = "EnterHandlerError",
                  !.trace = Append(@, "rejected")]]
  /\ UNCHANGED <<created, initialState, commitOrder>>
  /\ UNCHANGED others
  /\ hook' \in HookAfter

\* An enter handler throws or rejects.
EnterFails(c) ==
  /\ calls[c].pc = "awaitEnter"
  /\ calls' = [calls EXCEPT ![c] =
        [@ EXCEPT !.pc = "rejected", !.err = "EnterHandlerError",
                  !.trace = Append(@, "rejected")]]
  /\ UNCHANGED <<created, initialState, current, commitOrder>>
  /\ UNCHANGED others
  /\ hook' \in HookAfter

\* Variant of EnterDone: returns without publishing on the per-state channel.
EnterDoneSkipsState(c) ==
  /\ calls[c].pc = "awaitEnter"
  /\ calls' = [calls EXCEPT ![c] =
        [@ EXCEPT !.pc = "resolved", !.ret = current,
                  !.trace = @ \o <<"enterHandlersDone", "resolved">>]]
  /\ UNCHANGED <<created, initialState, current, commitOrder>>
  /\ UNCHANGED others
  /\ hook' \in HookAfter

\* Variant of EnterDone: the per-state notification is published on the
\* machine-wide emitter instead of stateEmitter.
EnterDonePublishesOnEmitter(c) ==
  /\ calls[c].pc = "awaitEnter"
  /\ calls' = [calls EXCEPT ![c] =
        [@ EXCEPT !.pc = "awaitState",
                  !.stateLog = <<[channel |-> current,
                                  action |-> calls[c].action,
                                  current |-> current,
                                  last |-> calls[c].last,
                                  meta |-> calls[c].meta]>>,
                  !.stateTo = Listeners(registry,
                                 [emitter |-> "emitter", event |-> current]),
                  !.trace = @ \o <<"enterHandlersDone", "statePublished">>]]
  /\ UNCHANGED <<created, initialState, current, commitOrder>>
  /\ UNCHANGED others
  /\ hook' \in HookAfter

\* Enter handlers completed: stateEmitter.emit(current, {action, current,
\* last, meta}); channel and payload are read from the cell at this point.
EnterDone(c) ==
  /\ calls[c].pc = "awaitEnter"
  /\ calls' = [calls EXCEPT ![c] =
        [@ EXCEPT !.pc = "awaitState",
                  !.stateLog = <<[channel |-> current,
                                  action |-> calls[c].action,
                                  current |-> current,
                                  last |-> calls[c].last,
                                  meta |-> calls[c].meta]>>,
                  !.stateTo = Listeners(registry, StateChannel(current)),
                  !.trace = @ \o <<"enterHandlersDone", "statePublished">>]]
  /\ UNCHANGED <<created, initialState, current, commitOrder>>
  /\ UNCHANGED others
  /\ hook' \in HookAfter

\* A per-state handler throws or rejects.
StateFails(c) ==
  /\ calls[c].pc = "awaitState"
  /\ calls' = [calls EXCEPT ![c] =
        [@ EXCEPT !.pc = "rejected", !.err = "StateHandlerError",
                  !.trace = Append(@, "rejected")]]
  /\ UNCHANGED <<created, initialState, current, commitOrder>>
  /\ UNCHANGED others
  /\ hook' \in HookAfter

\* Variant of StateDone: the call returns only while the cell still holds the
\* value it assigned.
StateDoneWaitsForOwnState(c) ==
  /\ calls[c].pc = "awaitState"
  /\ current = calls[c].result
  /\ calls' = [calls EXCEPT ![c] =
        [@ EXCEPT !.pc = "resolved", !.ret = current,
                  !.trace = @ \o <<"stateHandlersDone", "resolved">>]]
  /\ UNCHANGED <<created, initialState, current, commitOrder>>
  /\ UNCHANGED others
  /\ hook' \in HookAfter

\* Variant of StateDone: `return last`.
StateDoneReturnsLast(c) ==
  /\ calls[c].pc = "awaitState"
  /\ calls' = [calls EXCEPT ![c] =
        [@ EXCEPT !.pc = "resolved", !.ret = calls[c].last,
                  !.trace = @ \o <<"stateHandlersDone", "resolved">>]]
  /\ UNCHANGED <<created, initialState, current, commitOrder>>
  /\ UNCHANGED others
  /\ hook' \in HookAfter

\* Per-state handlers completed: `return current`, read from the cell.
StateDone(c) ==
  /\ calls[c].pc = "awaitState"
  /\ calls' = [calls EXCEPT ![c] =
        [@ EXCEPT !.pc = "resolved", !.ret = current,
                  !.trace = @ \o <<"stateHandlersDone", "resolved">>]]
  /\ UNCHANGED <<created, initialState, current, commitOrder>>
  /\ UNCHANGED others
  /\ hook' \in HookAfter

Next ==
  \/ \E s0 \in InitialStates : CreateMachine(s0)
  \/ \E c \in CallIds, a \in actionSet, m \in Metas : Call(c, a, m)
  \/ \E c \in CallIds : ExitFails(c)
  \/ \E c \in CallIds : LookupThrows(c)
  \/ \E c \in CallIds : LookupMisses(c)
  \/ \E c \in CallIds : InvokeFn(c)
  \/ \E c \in CallIds : FnRejects(c)
  \/ \E c \in CallIds, r \in StateNames \cup {Nothing} : FnResolves(c, r)
  \/ \E c \in CallIds : EnterFails(c)
  \/ \E c \in CallIds : EnterDone(c)
  \/ \E c \in CallIds : StateFails(c)
  \/ \E c \in CallIds : StateDone(c)

Spec == Init /\ [][Next]_vars

\* The await call c is suspended on returns: the handlers of the publish or
\* the TransitionFunction have completed, and the call takes its next step.
Proceed(c) ==
  \/ LookupThrows(c)
  \/ LookupMisses(c)
  \/ InvokeFn(c)
  \/ FnRejects(c)
  \/ \E r \in StateNames \cup {Nothing} : FnResolves(c, r)
  \/ EnterDone(c)
  \/ StateDone(c)

\* The machine under the assumption that whatever a call awaits completes.
SpecFair == Spec /\ \A c \in CallIds : WF_vars(Proceed(c))

----------------------------------------------------------------------------
\* Helpers for the properties below.

Range(q) == { q[i] : i \in 1..Len(q) }
Last(q) == q[Len(q)]
IsPrefix(p, q) == Len(p) <= Len(q) /\ \A i \in 1..Len(p) : p[i] = q[i]

\* The call has run its lookup (the await of the exit publish returned).
LookedUp(c) == calls[c].last # Unset
\* No call was issued after c.
Latest(c) == \A d \in CallIds : d > c => calls[d].pc = "idle"
\* c was issued with no call in flight and none was issued since.
RanAlone(c) == calls[c].pc # "idle" /\ calls[c].alone /\ Latest(c)

----------------------------------------------------------------------------
\* C1: a call whose action is not declared for the state s that is current
\* when it is made, running with no other call in flight, publishes exactly
\* one exit notification and no enter or per-state notification, leaves
\* getState() at s, never invokes a TransitionFunction, and, once its exit
\* handlers have completed, is resolved to nothing.
C1_UndeclaredActionIsNoOp ==
  \A c \in CallIds :
    ( /\ RanAlone(c)
      /\ calls[c].callCur \in StateNames
      /\ ~Declared(calls[c].callCur, calls[c].action) )
    => /\ getState = calls[c].callCur
       /\ Len(calls[c].exitLog) = 1
       /\ calls[c].enterLog = << >>
       /\ calls[c].stateLog = << >>
       /\ calls[c].fn = Unset
       /\ c \notin Range(commitOrder)
       /\ LookedUp(c) => calls[c].pc = "resolved" /\ calls[c].ret = Nothing

C1_Witness ==
  \E c \in CallIds :
    /\ RanAlone(c)
    /\ calls[c].callCur \in StateNames
    /\ ~Declared(calls[c].callCur, calls[c].action)
    /\ calls[c].pc = "resolved"
    /\ \E d \in CallIds : d < c /\ d \in Range(commitOrder)

----------------------------------------------------------------------------
\* C2 (as stated): the `last` of every enter notification is the value the
\* cell held at the instant the transition call was made.
C2_LastIsCallTimeState ==
  \A c \in CallIds :
    calls[c].enterLog # << >> => calls[c].enterLog[1].last = calls[c].callCur

\* C2 (amended): the `last` of every enter notification is the value the
\* cell held when the call resumed after its exit publish, which is the state
\* whose TransitionFunction was invoked; it is the call-time value whenever no
\* transition committed between the call and that resumption.
C2_LastIsLookupTimeState ==
  \A c \in CallIds :
    calls[c].enterLog # << >> =>
      /\ calls[c].enterLog[1].last = calls[c].fn
      /\ calls[c].enterLog[1].last \in StateNames
      /\ calls[c].commitsAtCall = calls[c].commitsAtLookup
           => calls[c].enterLog[1].last = calls[c].callCur

C2_Witness ==
  \E c, d \in CallIds :
    /\ c # d
    /\ calls[c].enterLog # << >>
    /\ calls[d].enterLog # << >>
    /\ calls[c].commitsAtCall = calls[c].commitsAtLookup
    /\ calls[d].commitsAtCall < calls[d].commitsAtLookup
    /\ calls[d].enterLog[1].last # calls[d].callCur

----------------------------------------------------------------------------
\* The order of the protocol's events within one call.
ProtocolOrder ==
  << "exitPublished", "exitHandlersDone", "fnInvoked", "fnResolved",
     "assigned", "enterPublished", "enterHandlersDone", "statePublished",
     "stateHandlersDone", "resolved" >>

\* The events of a call, without the rejection that may end them.
Events(c) ==
  LET t == calls[c].trace
  IN IF t # << >> /\ Last(t) = "rejected" THEN SubSeq(t, 1, Len(t) - 1) ELSE t

Happened(c, e) == e \in Range(calls[c].trace)

\* C3: within a call whose action is legal, the events happen in the order
\* exit published, exit handlers done, TransitionFunction invoked and
\* resolved, current assigned, enter published, enter handlers done,
\* per-state published, per-state handlers done, call resolved: what has
\* happened so far is always an initial part of that order, and each recorded
\* event is the effect the call has had on the machine.
C3_ProtocolOrder ==
  \A c \in CallIds :
    calls[c].fn # Unset =>
      /\ IsPrefix(Events(c), ProtocolOrder)
      /\ Happened(c, "exitPublished") <=> Len(calls[c].exitLog) = 1
      /\ Happened(c, "assigned") <=> c \in Range(commitOrder)
      /\ Happened(c, "enterPublished") <=> Len(calls[c].enterLog) = 1
      /\ Happened(c, "statePublished") <=> Len(calls[c].stateLog) = 1
      /\ Happened(c, "resolved") <=> calls[c].pc = "resolved"
      /\ calls[c].enterLog # << >> =>
            calls[c].enterLog[1].current = calls[c].result

C3_Witness ==
  \E c, d \in CallIds :
    /\ c # d
    /\ calls[c].fn # Unset
    /\ calls[c].pc = "resolved"
    /\ Events(c) = ProtocolOrder
    /\ InFlight(d)

----------------------------------------------------------------------------
\* C4: a call whose TransitionFunction throws or rejects is rejected with
\* that error, has not assigned current (the cell still holds the value it
\* had when the function was invoked, unless another call committed since),
\* and has published neither an enter nor a per-state notification.
C4_TransitionFailure ==
  \A c \in CallIds :
    /\ (calls[c].pc = "rejected" /\ Events(c) = SubSeq(ProtocolOrder, 1, 3))
         => calls[c].err = "TransitionError"
    /\ calls[c].err = "TransitionError" =>
         /\ calls[c].pc = "rejected"
         /\ c \notin Range(commitOrder)
         /\ calls[c].enterLog = << >>
         /\ calls[c].stateLog = << >>
         /\ Len(commitOrder) = calls[c].commitsAtLookup
              => getState = calls[c].last

C4_Witness ==
  \E c \in CallIds :
    /\ calls[c].err = "TransitionError"
    /\ Len(commitOrder) = calls[c].commitsAtLookup
    /\ getState = calls[c].last

----------------------------------------------------------------------------
\* C5 (as stated): in a machine built with a valid initialState, the cell is
\* a key of the config at every reachable state, whatever the
\* TransitionFunctions return.
C5_CurrentIsAlwaysAKey ==
  (created /\ initialState \in StateNames) => getState \in StateNames

\* C5 (amended): the cell always holds the initialState given to
\* createMachine, until a transition commits, and from then on the value the
\* most recently resolved TransitionFunction returned; it is outside the key
\* set only when that value is.
C5_CurrentIsInitialOrLastResult ==
  created =>
    /\ commitOrder = << >> => getState = initialState
    /\ commitOrder # << >> => getState = calls[Last(commitOrder)].result
    /\ getState \notin StateNames =>
         \/ commitOrder = << >> /\ initialState \notin StateNames
         \/ commitOrder # << >>
              /\ calls[Last(commitOrder)].result \notin StateNames
              /\ calls[Last(commitOrder)].result
                   \in config[calls[Last(commitOrder)].fn]
                             [calls[Last(commitOrder)].action]

C5_Witness ==
  /\ created
  /\ initialState \in StateNames
  /\ commitOrder # << >>
  /\ getState = Nothing
  /\ \E c \in CallIds : calls[c].pc = "resolved" /\ calls[c].result = Nothing

----------------------------------------------------------------------------
\* C6: createMachine never returns a handle for an initialState that is not
\* a key of the config.
C6_InvalidInitialStateRejected ==
  created => initialState \in StateNames

----------------------------------------------------------------------------
\* C7 (as stated): a call resolves to nothing exactly when its action is not
\* declared for the state that was current when the call was made; when the
\* action is declared for that state, that state's TransitionFunction is the
\* one invoked.
C7_DecidedByCallTimeState ==
  \A c \in CallIds :
    (LookedUp(c) /\ calls[c].callCur \in StateNames) =>
      /\ ~Declared(calls[c].callCur, calls[c].action)
           => calls[c].pc = "resolved" /\ calls[c].ret = Nothing
      /\ Declared(calls[c].callCur, calls[c].action)
           => calls[c].fn = calls[c].callCur
      /\ (calls[c].pc = "resolved" /\ calls[c].ret = Nothing)
           => ~Declared(calls[c].callCur, calls[c].action)

\* C7 (amended): what decides is the state that is current when the call
\* resumes after its exit publish.  If the action is not declared for it the
\* call resolves to nothing without invoking a TransitionFunction; if it is,
\* that state's TransitionFunction is invoked.  That state is the call-time
\* state whenever no transition committed in between.  A call that invoked a
\* TransitionFunction resolves to the cell's value at its return, which is
\* nothing only if a TransitionFunction resolved to nothing.
C7_DecidedByLookupTimeState ==
  \A c \in CallIds :
    (LookedUp(c) /\ calls[c].last \in StateNames) =>
      /\ ~Declared(calls[c].last, calls[c].action)
           => /\ calls[c].pc = "resolved"
              /\ calls[c].ret = Nothing
              /\ calls[c].fn = Unset
      /\ Declared(calls[c].last, calls[c].action)
           => calls[c].fn = calls[c].last
      /\ calls[c].commitsAtCall = calls[c].commitsAtLookup
           => calls[c].last = calls[c].callCur
      /\ (calls[c].pc = "resolved" /\ calls[c].ret = Nothing
             /\ calls[c].fn # Unset)
           => \E d \in Range(commitOrder) : calls[d].result = Nothing

C7_Witness ==
  \E c \in CallIds :
    /\ calls[c].pc = "resolved"
    /\ calls[c].ret = Nothing
    /\ calls[c].fn = Unset
    /\ Declared(calls[c].callCur, calls[c].action)
    /\ calls[c].last \in StateNames
    /\ ~Declared(calls[c].last, calls[c].action)

----------------------------------------------------------------------------
\* Some step of call c is possible now.
CanStep(c) ==
  \/ ENABLED InvokeFn(c)
  \/ ENABLED LookupMisses(c)
  \/ ENABLED LookupThrows(c)
  \/ ENABLED FnRejects(c)
  \/ \E r \in StateNames \cup {Nothing} : ENABLED FnResolves(c, r)
  \/ ENABLED EnterDone(c)
  \/ ENABLED StateDone(c)

\* C8: calls in flight together each assign their own TransitionFunction
\* result when it resolves; the cell holds the result that resolved last,
\* whatever the order the calls were issued in; a call in flight can always
\* take its next step, whatever the other calls are doing.
C8_LastResolvedWins ==
  /\ \A c \in CallIds :
        /\ calls[c].result # Unset <=> c \in Range(commitOrder)
        /\ InFlight(c) => CanStep(c)
  /\ \A i, j \in 1..Len(commitOrder) : i # j => commitOrder[i] # commitOrder[j]
  /\ commitOrder # << >> => getState = calls[Last(commitOrder)].result

C8_Witness ==
  \E c, d \in CallIds :
    /\ c < d
    /\ commitOrder = <<d, c>>
    /\ calls[c].commitsAtLookup = 0
    /\ calls[d].commitsAtLookup = 0
    /\ calls[c].pc = "resolved"
    /\ calls[d].pc = "resolved"
    /\ calls[c].result # calls[d].result
    /\ getState = calls[c].result

----------------------------------------------------------------------------
\* The step assigns the cell the result of a TransitionFunction that
\* resolves in it.
IsCommit ==
  \E c \in CallIds :
    /\ calls[c].pc = "awaitFn"
    /\ calls'[c].pc = "awaitEnter"
    /\ current' = calls'[c].result

\* C9: once the machine exists, getState() changes only in a step in which a
\* TransitionFunction resolves and its result is assigned; a call suspended
\* on its exit handlers or on its TransitionFunction leaves getState() at the
\* call-time state as long as no other call commits, and a call that has
\* committed leaves it at its result as long as no other call commits.
C9_StateChangesOnlyAtCommit ==
  /\ [][(created /\ current' # current) => IsCommit]_vars
  /\ [](\A c \in CallIds :
          /\ (calls[c].pc \in {"awaitExit", "awaitFn"}
                /\ calls[c].commitsAtCall = Len(commitOrder))
               => getState = calls[c].callCur
          /\ (calls[c].result # Unset /\ Last(commitOrder) = c)
               => getState = calls[c].result)

C9_Witness ==
  \E c \in CallIds :
    /\ calls[c].pc = "awaitFn"
    /\ calls[c].commitsAtCall = Len(commitOrder)
    /\ getState = calls[c].callCur
    /\ Nothing \notin config[calls[c].fn][calls[c].action]
    /\ calls[c].callCur \notin config[calls[c].fn][calls[c].action]

----------------------------------------------------------------------------
\* Per-state notifications published on channel s.
PerStateNotifications(s) ==
  Cardinality({ c \in CallIds :
                  calls[c].stateLog # << >> /\ calls[c].stateLog[1].channel = s })

\* Commits that set current to s.
CommitsTo(s) ==
  Cardinality({ c \in Range(commitOrder) : calls[c].result = s })

\* C10: once every call has settled, none of them rejected, the number of
\* per-state notifications published on the channel of each state s is the
\* number of commits that set current to s.
C10_PerStateNotificationPerCommit ==
  (\A c \in CallIds : calls[c].pc \in {"idle", "resolved"}) =>
    \A s \in StateNames : PerStateNotifications(s) = CommitsTo(s)

----------------------------------------------------------------------------
\* The payload of a per-state notification, without its channel.
PayloadOf(n) ==
  [action |-> n.action, current |-> n.current, last |-> n.last, meta |-> n.meta]

\* C11: every per-state notification carries the payload of the enter
\* notification of the same call and is published on the channel of the
\* state that call committed.
C11_PerStatePayloadIsEnterPayload ==
  \A c \in CallIds :
    calls[c].stateLog # << >> =>
      /\ calls[c].stateLog[1].channel = calls[c].result
      /\ PayloadOf(calls[c].stateLog[1]) = calls[c].enterLog[1]

----------------------------------------------------------------------------
\* C12: a call that committed and resolved is resolved to the value its own
\* TransitionFunction returned, and its enter notification's `current` is
\* that value.
C12_ResolvesToOwnResult ==
  \A c \in CallIds :
    (calls[c].pc = "resolved" /\ c \in Range(commitOrder)) =>
      /\ calls[c].ret = calls[c].result
      /\ calls[c].enterLog[1].current = calls[c].result

----------------------------------------------------------------------------
\* The value the cell held when call c was made: the initialState, or the
\* result of the last commit before the call.
CellAtCall(c) ==
  IF calls[c].commitsAtCall = 0
  THEN initialState
  ELSE calls[commitOrder[calls[c].commitsAtCall]].result

\* C13: every call that has been made, legal or not, has published exactly
\* one exit notification, as its first event and before its lookup; the
\* notification carries the call's action and meta and the value the cell
\* held at the instant of the call.
C13_ExitPublishedOncePerCall ==
  \A c \in CallIds :
    calls[c].pc # "idle" =>
      /\ Len(calls[c].exitLog) = 1
      /\ calls[c].trace[1] = "exitPublished"
      /\ \A i \in 2..Len(calls[c].trace) : calls[c].trace[i] # "exitPublished"
      /\ calls[c].exitLog[1] = [action |-> calls[c].action,
                                current |-> CellAtCall(c),
                                meta |-> calls[c].meta]
      /\ calls[c].action \in actionSet
      /\ calls[c].meta \in Metas

C13_Witness ==
  \E c, d \in CallIds :
    /\ c # d
    /\ calls[c].pc = "resolved" /\ calls[c].fn = Unset
    /\ calls[c].commitsAtCall > 0
    /\ calls[c].exitLog[1].current # initialState
    /\ calls[d].pc = "resolved" /\ calls[d].fn # Unset

----------------------------------------------------------------------------
\* C17: a call whose exit handler throws or rejects is rejected with that
\* failure right after the exit publish: it has run no lookup, invoked no
\* TransitionFunction, assigned nothing to the cell and published neither an
\* enter nor a per-state notification.
C17_ExitHandlerFailure ==
  \A c \in CallIds :
    /\ (calls[c].pc = "rejected" /\ ~LookedUp(c))
         => calls[c].err = "ExitHandlerError"
    /\ calls[c].err = "ExitHandlerError" =>
         /\ calls[c].pc = "rejected"
         /\ calls[c].trace = <<"exitPublished", "rejected">>
         /\ calls[c].fn = Unset
         /\ calls[c].last = Unset
         /\ c \notin Range(commitOrder)
         /\ calls[c].enterLog = << >>
         /\ calls[c].stateLog = << >>
         /\ Len(commitOrder) = calls[c].commitsAtCall
              => getState = calls[c].callCur

C17_Witness ==
  \E c \in CallIds :
    /\ calls[c].err = "ExitHandlerError"
    /\ Declared(calls[c].callCur, calls[c].action)
    /\ Len(commitOrder) = calls[c].commitsAtCall
    /\ getState = calls[c].callCur

----------------------------------------------------------------------------
\* C20: a call whose enter handler throws or rejects is rejected with that
\* failure, has published no per-state notification, and has kept its
\* assignment: the cell holds the call's result until another call commits.
C20_EnterHandlerFailure ==
  \A c \in CallIds :
    /\ (calls[c].pc = "rejected" /\ Events(c) = SubSeq(ProtocolOrder, 1, 6))
         => calls[c].err = "EnterHandlerError"
    /\ calls[c].err = "EnterHandlerError" =>
         /\ calls[c].pc = "rejected"
         /\ Len(calls[c].enterLog) = 1
         /\ calls[c].stateLog = << >>
         /\ c \in Range(commitOrder)
         /\ Last(commitOrder) = c => getState = calls[c].result

C20_Witness ==
  \E c \in CallIds :
    /\ calls[c].err = "EnterHandlerError"
    /\ Last(commitOrder) = c
    /\ getState = calls[c].result
    /\ getState # calls[c].last

----------------------------------------------------------------------------
\* The reference finite-state machine of C19.
Deterministic(s, a) ==
  Declared(s, a) /\ \E t \in StateNames : config[s][a] = {t}

Delta(s, a) ==
  IF Declared(s, a) THEN CHOOSE t \in config[s][a] : TRUE ELSE s

RefResult(s, a) == IF Declared(s, a) THEN Delta(s, a) ELSE Nothing

\* The reference machine's state after the first n calls.
RECURSIVE RefState(_)
RefState(n) ==
  IF n = 0 THEN initialState ELSE Delta(RefState(n - 1), calls[n].action)

Issued == { c \in CallIds : calls[c].pc # "idle" }

\* The calls were issued one at a time, each after the previous one had
\* resolved, and each met an undeclared action or a deterministic
\* TransitionFunction that returns a declared state.
SequentialRun ==
  /\ created
  /\ initialState \in StateNames
  /\ \A c \in Issued :
        /\ calls[c].alone
        /\ calls[c].pc = "resolved"
        /\ \/ ~Declared(RefState(c - 1), calls[c].action)
           \/ Deterministic(RefState(c - 1), calls[c].action)

\* C19: after a sequence of action calls issued one at a time, with
\* deterministic TransitionFunctions returning declared states, getState()
\* and every call's resolved value are those of the reference machine.
C19_SequentialRunMatchesReference ==
  SequentialRun =>
    /\ getState = RefState(Cardinality(Issued))
    /\ \A c \in Issued :
          calls[c].ret = RefResult(RefState(c - 1), calls[c].action)

\* Scenario A: off -switchOn-> on -switchOff-> off.
C19_Witness ==
  /\ SequentialRun
  /\ initialState = "off"
  /\ Cardinality(Issued) = 2
  /\ calls[1].action = "switchOn" /\ calls[1].ret = "on"
  /\ calls[2].action = "switchOff" /\ calls[2].ret = "off"
  /\ getState = "off"

----------------------------------------------------------------------------
\* C18: when every handler and TransitionFunction a call waits on completes,
\* every call that has begun eventually settles (from some point on no call
\* is in flight, and a settled call stays settled); while in flight its next
\* step never depends on what another call is doing.
C18_EveryCallSettles ==
  /\ <>[](\A c \in CallIds : ~InFlight(c))
  /\ [](\A c \in CallIds : InFlight(c) => ENABLED Proceed(c))
  /\ [][\A c \in CallIds : Settled(c) => calls'[c] = calls[c]]_vars

C18_Witness ==
  \E c, d \in CallIds :
    /\ c < d
    /\ ~calls[d].alone
    /\ calls[c].pc = "resolved" /\ c \in Range(commitOrder)
    /\ calls[d].pc = "resolved" /\ d \in Range(commitOrder)
    /\ calls[d].commitsAtLookup = 0

----------------------------------------------------------------------------
\* The handle: buildActions, buildHandlers and the object createMachine
\* returns.  Member names are computed from state and action names, so the
\* names of this part are sequences of one-character strings.

off_ == <<"o", "f", "f">>
Off_ == <<"O", "f", "f">>
enter_ == <<"e", "n", "t", "e", "r">>
go_ == <<"g", "o">>
getState_ == <<"g", "e", "t", "S", "t", "a", "t", "e">>
onOff_ == <<"o", "n", "O", "f", "f">>
onEnter_ == <<"o", "n", "E", "n", "t", "e", "r">>
onExit_ == <<"o", "n", "E", "x", "i", "t">>
transition_ == <<"t", "r", "a", "n", "s", "i", "t", "i", "o", "n">>

\* State names and action names the configs of this part are drawn from.
StatePool == {off_, Off_, enter_}
ActionPool == {go_, getState_, onOff_}

\* Every config over the pools: an ordered, duplicate-free list of state
\* names (the order of Object.keys) and the action names each declares.
Configs ==
  { cfg \in [keys : UNION { [1..n -> StatePool] : n \in 1..MaxStates },
             defs : [StatePool -> SUBSET ActionPool]] :
      /\ \A i, j \in DOMAIN cfg.keys : cfg.keys[i] = cfg.keys[j] => i = j
      /\ \A s \in StatePool :
           (\A i \in DOMAIN cfg.keys : cfg.keys[i] # s) => cfg.defs[s] = {} }

\* String.prototype.toUpperCase on one character.
toUpperCase(ch) ==
  CASE ch = "o" -> "O"
    [] ch = "e" -> "E"
    [] ch = "g" -> "G"
    [] ch = "t" -> "T"
    [] OTHER -> ch

\* `on${first.toUpperCase()}${rest.join("")}`
HandlerKey(cur) ==
  LET first == SubSeq(cur, 1, 1)
      rest == SubSeq(cur, 2, Len(cur))
  IN <<"o", "n">> \o [i \in DOMAIN first |-> toUpperCase(first[i])] \o rest

\* { ...f, ...g }: the members of g replace those of f with the same name.
Spread(f, g) ==
  [k \in DOMAIN f \cup DOMAIN g |-> IF k \in DOMAIN g THEN g[k] ELSE f[k]]

\* The action names that appear under any state of the config.
ActionNames(cfg) == UNION { cfg.defs[cfg.keys[i]] : i \in DOMAIN cfg.keys }

\* One doTransition closure per action name, bound to that name.
buildActions(cfg) ==
  [a \in ActionNames(cfg) |-> [fn |-> "doTransition", bound |-> a]]

\* keys.reduce: one subscription function per state, stored under its
\* handler key; a later state with the same key replaces the earlier one.
RECURSIVE buildHandlersUpTo(_, _)
buildHandlersUpTo(cfg, n) ==
  IF n = 0 THEN << >>
  ELSE LET cur == cfg.keys[n]
       IN Spread(buildHandlersUpTo(cfg, n - 1),
                 [k \in {HandlerKey(cur)} |-> [fn |-> "subscribe", bound |-> cur]])

buildHandlers(cfg) == buildHandlersUpTo(cfg, Len(cfg.keys))

\* The four members createMachine always adds.
OwnMembers ==
  [k \in {onEnter_, onExit_, transition_, getState_} |->
     CASE k = onEnter_ -> [fn |-> "onEnter", bound |-> onEnter_]
       [] k = onExit_ -> [fn |-> "onExit", bound |-> onExit_]
       [] k = transition_ -> [fn |-> "transition", bound |-> NoName]
       [] OTHER -> [fn |-> "getState", bound |-> NoName]]

\* { ...actions, ...handlers, onEnter, onExit, transition, getState }
MachineHandle(cfg) ==
  Spread(Spread(buildActions(cfg), buildHandlers(cfg)), OwnMembers)

\* What calling a member with first argument x does.
EffectOf(member, x) ==
  CASE member.fn = "doTransition" -> [kind |-> "transition", target |-> member.bound]
    [] member.fn = "transition" -> [kind |-> "transition", target |-> x]
    [] member.fn = "subscribe" -> [kind |-> "stateEmitter.on", target |-> member.bound]
    [] member.fn = "onEnter" -> [kind |-> "emitter.on", target |-> onEnter_]
    [] member.fn = "onExit" -> [kind |-> "emitter.on", target |-> onExit_]
    [] OTHER -> [kind |-> "getState", target |-> NoName]

InitHandle ==
  /\ created = FALSE
  /\ initialState = Unset
  /\ current = Unset
  /\ calls = [c \in CallIds |-> IdleCall]
  /\ commitOrder = << >>
  /\ hcfg \in Configs
  /\ hpc = "init"
  /\ handle = << >>
  /\ hEffect = NoEffect
  /\ registry = [ch \in Channels |-> {}]
  /\ subs = << >>
  /\ hook = NoHook

\* createMachine builds the handle from the config.
BuildHandle ==
  /\ hpc = "init"
  /\ hpc' = "built"
  /\ handle' = MachineHandle(hcfg)
  /\ UNCHANGED <<hcfg, hEffect>>
  /\ UNCHANGED <<created, initialState, current, calls, commitOrder>>
  /\ UNCHANGED <<registry, subs>>
  /\ UNCHANGED hook

\* handle[k](x)
CallMember(k, x) ==
  /\ hpc = "built"
  /\ k \in DOMAIN handle
  /\ hEffect' = [member |-> k, arg |-> x] @@ EffectOf(handle[k], x)
  /\ UNCHANGED <<hcfg, hpc, handle>>
  /\ UNCHANGED <<created, initialState, current, calls, commitOrder>>
  /\ UNCHANGED <<registry, subs>>
  /\ UNCHANGED hook

NextHandle ==
  \/ BuildHandle
  \/ \E k \in ActionPool \cup {HandlerKey(s) : s \in StatePool}
               \cup DOMAIN OwnMembers, x \in ActionPool : CallMember(k, x)

SpecHandle == InitHandle /\ [][NextHandle]_vars

----------------------------------------------------------------------------
\* C14: the handle has one callable for every action name of the config and
\* for no other name, and calling handle[a](meta) does what
\* handle.transition(a, meta) does, also when a is the name of another
\* member of the handle.
C14_OneCallablePerActionName ==
  hpc = "built" =>
    /\ \A a \in ActionNames(hcfg) :
         /\ a \in DOMAIN handle
         /\ \A x \in ActionPool :
              EffectOf(handle[a], x) = EffectOf(handle[transition_], a)
    /\ \A k \in DOMAIN handle :
         handle[k].fn = "doTransition" => k \in ActionNames(hcfg)
    /\ hEffect.member \in ActionNames(hcfg) =>
         /\ hEffect.kind = "transition"
         /\ hEffect.target = hEffect.member

----------------------------------------------------------------------------
\* C15: for every declared state name s the member "on" + s capitalized
\* registers handlers on the per-state channel s and on no other channel,
\* also for a state named "enter" and for two states whose names differ only
\* in the case of the first character.
C15_StateSubscriptionPerState ==
  hpc = "built" =>
    \A i \in DOMAIN hcfg.keys :
      LET s == hcfg.keys[i]
      IN /\ HandlerKey(s) \in DOMAIN handle
         /\ handle[HandlerKey(s)] = [fn |-> "subscribe", bound |-> s]
         /\ hEffect.member = HandlerKey(s) =>
              /\ hEffect.kind = "stateEmitter.on"
              /\ hEffect.target = s

----------------------------------------------------------------------------
\* Subscriptions: onEnter, onExit and the per-state subscription functions,
\* each of which registers the handler and returns a closure that removes
\* that handler from that channel.

\* A handler is subscribed only while it is not registered on the channel.
Subscribe(ch, h) ==
  /\ created
  /\ Len(subs) < MaxSubs
  /\ h \notin registry[ch]
  /\ registry' = EmitterOn(registry, ch, h)
  /\ subs' = Append(subs, [channel |-> ch, handler |-> h, called |-> 0])
  /\ UNCHANGED <<created, initialState, current, calls, commitOrder>>
  /\ UNCHANGED <<hcfg, hpc, handle, hEffect>>
  /\ UNCHANGED hook

onEnter(h) == Subscribe(EnterChannel, h)

onExit(h) == Subscribe(ExitChannel, h)

\* handle.on<State>(h) for the declared state s
onState(s, h) == Subscribe(StateChannel(s), h)

\* The i-th unsubscribe function handed out (offEnter, offExit or the
\* closure of a per-state subscription) is called.
unsubscribe(i) ==
  /\ i \in DOMAIN subs
  /\ subs[i].called < MaxUnsubCalls
  /\ registry' = EmitterOff(registry, subs[i].channel, subs[i].handler)
  /\ subs' = [subs EXCEPT ![i].called = @ + 1]
  /\ UNCHANGED <<created, initialState, current, calls, commitOrder>>
  /\ UNCHANGED <<hcfg, hpc, handle, hEffect>>
  /\ UNCHANGED hook

\* A machine created in state "on", before any subscription or call.
InitSub ==
  /\ created = TRUE
  /\ initialState = "on"
  /\ current = "on"
  /\ calls = [c \in CallIds |-> IdleCall]
  /\ commitOrder = << >>
  /\ hcfg = NoConfig
  /\ hpc = "init"
  /\ handle = << >>
  /\ hEffect = NoEffect
  /\ registry = [ch \in Channels |-> {}]
  /\ subs = << >>
  /\ hook = NoHook

\* Subscriptions and unsubscriptions interleaved with one transition call
\* whose handlers complete.
NextSub ==
  \/ \E h \in Handlers : onEnter(h)
  \/ \E h \in Handlers : onExit(h)
  \/ \E s \in StateNames, h \in Handlers : onState(s, h)
  \/ \E i \in 1..MaxSubs : unsubscribe(i)
  \/ \E a \in actionSet, m \in Metas : Call(1, a, m)
  \/ LookupMisses(1)
  \/ InvokeFn(1)
  \/ FnRejects(1)
  \/ \E r \in StateNames \cup {Nothing} : FnResolves(1, r)
  \/ EnterDone(1)
  \/ StateDone(1)

SpecSub == InitSub /\ [][NextSub]_vars

----------------------------------------------------------------------------
\* C16: when an unsubscribe function is called, the handler it registered is
\* no longer registered on its channel and every other registration is
\* kept; a second call of the same unsubscribe function changes nothing; and
\* a publish invokes exactly the handlers registered on its channel, so a
\* removed handler is not invoked and the remaining ones are.
C16_UnsubscribeRemovesItsHandler ==
  [][ /\ \A i \in DOMAIN subs :
           subs'[i].called = subs[i].called + 1 =>
             /\ subs[i].handler \notin registry'[subs[i].channel]
             /\ \A ch \in Channels, h \in Handlers :
                  /\ h \in registry[ch]
                  /\ <<ch, h>> # <<subs[i].channel, subs[i].handler>>
                  => h \in registry'[ch]
             /\ subs[i].called >= 1 => registry' = registry
      /\ calls[1].pc = "idle" /\ calls'[1].pc = "awaitExit" =>
           calls'[1].exitTo = registry[ExitChannel]
      /\ calls[1].pc = "awaitFn" /\ calls'[1].pc = "awaitEnter" =>
           calls'[1].enterTo = registry[EnterChannel]
      /\ calls[1].pc = "awaitEnter" /\ calls'[1].pc = "awaitState"
           /\ current \in StateNames =>
           calls'[1].stateTo = registry[StateChannel(current)]
    ]_vars

----------------------------------------------------------------------------
\* C21: in every enter and per-state notification, in any interleaving of
\* calls, `last` is a state that declares the notification's action, and the
\* TransitionFunction whose result the call assigned is config[last][action]:
\* nothing can run between the lookup, the recording of `last` and the
\* invocation.
C21_LastDeclaresAction ==
  \A c \in CallIds :
    /\ \A i \in DOMAIN calls[c].enterLog :
         LET n == calls[c].enterLog[i]
         IN /\ Declared(n.last, n.action)
            /\ calls[c].fn = n.last
            /\ n.action = calls[c].action
            /\ n.current = calls[c].result
            /\ calls[c].result \in config[n.last][n.action]
    /\ \A i \in DOMAIN calls[c].stateLog :
         LET n == calls[c].stateLog[i]
         IN /\ Declared(n.last, n.action)
            /\ calls[c].fn = n.last
            /\ n.action = calls[c].action
            /\ calls[c].result \in config[n.last][n.action]

\* A call whose lookup came after another call's commit, so that `last` is
\* not the state the call was issued in, published both notifications.
C21_Witness ==
  \E c \in CallIds :
    /\ calls[c].enterLog # << >>
    /\ calls[c].stateLog # << >>
    /\ calls[c].commitsAtLookup > calls[c].commitsAtCall
    /\ calls[c].last # calls[c].callCur

----------------------------------------------------------------------------
\* A supplied options.emitter: whoever supplied it can register handlers on
\* it under any event name, also under the name of a state.

Registrations == { <<ch, h>> \in Channels \X Handlers : h \in registry[ch] }

\* emitter.on(e, h) on the supplied emitter, from outside the machine.
SuppliedOn(e, h) ==
  /\ created
  /\ Cardinality(Registrations) < MaxSubs
  /\ h \notin registry[[emitter |-> "emitter", event |-> e]]
  /\ registry' = EmitterOn(registry, [emitter |-> "emitter", event |-> e], h)
  /\ UNCHANGED <<created, initialState, current, calls, commitOrder>>
  /\ UNCHANGED <<hcfg, hpc, handle, hEffect, subs>>
  /\ UNCHANGED hook

\* Registrations on the supplied emitter and per-state subscriptions through
\* the handle, interleaved with one transition call whose handlers complete.
NextEmitter ==
  \/ \E e \in EventNames, h \in Handlers : SuppliedOn(e, h)
  \/ \E s \in StateNames, h \in Handlers : onState(s, h)
  \/ \E a \in actionSet, m \in Metas : Call(1, a, m)
  \/ LookupMisses(1)
  \/ InvokeFn(1)
  \/ FnRejects(1)
  \/ \E r \in StateNames \cup {Nothing} : FnResolves(1, r)
  \/ EnterDone(1)
  \/ StateDone(1)

SpecEmitter == InitSub /\ [][NextEmitter]_vars

\* Handlers subscribed through the handle to the per-state channel of s.
StateSubscribers(s) ==
  { subs[i].handler : i \in { j \in DOMAIN subs : subs[j].channel = StateChannel(s) } }

----------------------------------------------------------------------------
\* C22: with a supplied emitter, the exit and enter notifications go to the
\* handlers registered on it for the exit and the enter event and to no
\* others; a per-state notification goes only to handlers subscribed through
\* the handle to that state, never to a handler registered on the supplied
\* emitter, also when the state is named "onEnter".
C22_PerStateUsesOwnEmitter ==
  \A c \in CallIds :
    /\ calls[c].exitTo \subseteq registry[ExitChannel]
    /\ calls[c].enterTo \subseteq registry[EnterChannel]
    /\ \A i \in DOMAIN calls[c].stateLog :
         calls[c].stateTo \subseteq
           IF calls[c].stateLog[i].channel \in StateNames
             THEN StateSubscribers(calls[c].stateLog[i].channel)
             ELSE {}

\* The machine entered the state named "onEnter": the handler registered for
\* the enter event on the supplied emitter got the enter notification only,
\* the handler subscribed to the state got the per-state notification only.
C22_Witness ==
  /\ calls[1].stateLog # << >>
  /\ calls[1].stateLog[1].channel = "onEnter"
  /\ calls[1].enterTo = {"h1"}
  /\ calls[1].stateTo = {"h2"}

----------------------------------------------------------------------------
\* useStateMachine: a component that has rendered once and run its effect.
\* currentState is useState(initialState), isTransitioning is
\* useState(false), and the effect has subscribed the two handlers.

InitHook ==
  /\ created = TRUE
  /\ initialState \in {"off", "on"}
  /\ current = initialState
  /\ calls = [c \in CallIds |-> IdleCall]
  /\ commitOrder = << >>
  /\ hcfg = NoConfig
  /\ hpc = "init"
  /\ handle = << >>
  /\ hEffect = NoEffect
  /\ registry = [ch \in Channels |->
                   IF ch = EnterChannel THEN {HookEnter}
                   ELSE IF ch = ExitChannel THEN {HookExit} ELSE {}]
  /\ subs = << [channel |-> EnterChannel, handler |-> HookEnter, called |-> 0],
               [channel |-> ExitChannel, handler |-> HookExit, called |-> 0] >>
  /\ hook = [ mounted |-> TRUE, currentState |-> initialState,
              isTransitioning |-> FALSE ]

\* The effect's cleanup: unsubscribeEnter(); unsubscribeExit().
Unmount ==
  /\ hook.mounted
  /\ hook' = [hook EXCEPT !.mounted = FALSE]
  /\ registry' = EmitterOff(EmitterOff(registry, EnterChannel, HookEnter),
                            ExitChannel, HookExit)
  /\ subs' = [i \in DOMAIN subs |-> [subs[i] EXCEPT !.called = @ + 1]]
  /\ UNCHANGED <<created, initialState, current, calls, commitOrder>>
  /\ UNCHANGED <<hcfg, hpc, handle, hEffect>>

\* Calls issued through the hook's transition or the machine's action
\* methods; the hook's handlers complete.
NextHook ==
  \/ \E c \in CallIds, a \in actionSet, m \in Metas : Call(c, a, m)
  \/ \E c \in CallIds : LookupThrows(c)
  \/ \E c \in CallIds : LookupMisses(c)
  \/ \E c \in CallIds : InvokeFn(c)
  \/ \E c \in CallIds : FnRejects(c)
  \/ \E c \in CallIds, r \in StateNames \cup {Nothing} : FnResolves(c, r)
  \/ \E c \in CallIds : EnterDone(c)
  \/ \E c \in CallIds : StateDone(c)
  \/ Unmount

SpecHook == InitHook /\ [][NextHook]_vars

\* No call is in flight: every call that was issued has settled.
AllSettled == \A c \in CallIds : ~InFlight(c)

----------------------------------------------------------------------------
\* C23: whenever every call issued through the hook or its machine has
\* settled (committed, resolved to nothing, or rejected), the mounted hook's
\* isTransitioning is false.
C23_IdleWhenSettled ==
  (hook.mounted /\ AllSettled) => ~hook.isTransitioning

----------------------------------------------------------------------------
\* C24: whenever every call has settled and the hook's enter subscription is
\* active, the hook's currentState equals machine.getState().
C24_CurrentStateInSync ==
  (hook.mounted /\ AllSettled) => hook.currentState = getState

\* Two overlapping calls both committed and settled, the machine has left
\* its initial state, and the mounted hook shows the machine's state.
C24_Witness ==
  /\ hook.mounted
  /\ AllSettled
  /\ Len(commitOrder) = 2
  /\ \E c \in CallIds : calls[c].pc = "resolved" /\ ~calls[c].alone
  /\ getState # initialState
  /\ hook.currentState = getState

====
